---------------------------- MODULE Spec2Model ----------------------------
(***************************************************************************)
(* Model of src/components/PdfReport.tsx: the derived values computed at   *)
(* the top of the PdfReport component (inverter limits, per-MPPT parallel  *)
(* string count and gPV fuse rule, production voltage drop, subscription   *)
(* note), the Voc calculation method, the DC audit page and the AC page,   *)
(* the printable rows of the material list, the pagination and the pages   *)
(* rendered, and the getRecommendedMargins table lookup.                   *)
(*                                                                         *)
(* The component is a pure function of its props, evaluated top to bottom. *)
(* Each group of statements is one action; pc is the position reached.     *)
(* Each specification draws the props of one group in its initial state    *)
(* and leaves the variables of the other groups idle.                      *)
(*                                                                         *)
(* Optional values (null / undefined in the source) are modelled as        *)
(* sequences: << >> when absent, << v >> when present.                     *)
(***************************************************************************)
EXTENDS Integers, Sequences, FiniteSets

VARIABLES
    pc,                     \* position in the function being evaluated
    \* ---- getRecommendedMargins(roofType, windZone)
    roofType, windZone, baseMargin, sideMargin, topBottomMargin, margins,
    \* ---- PdfReport props
    phase,                  \* project.inverterConfig.phase
    configuredStrings,      \* project.inverterConfig.configuredStrings
    agcpValue,              \* project.inverterConfig.agcpValue
    fieldsPowerW,           \* per field: panels.model.power * rows * columns
    report,                 \* CompatibilityReport | null
    voltageDrop,            \* main feeder drop
    microBranchesReport,    \* MicroBranchesReport | null | undefined
    \* ---- PdfReport derived values
    isThreePhase, invVmaxLimit, invVmpMin,
    stringsAnalysis, mpptCount,
    mpptParallelCounts, maxParallelStringsOnAnyMppt, gpvRequired,
    hasMicroBranches, worstBranchDrop, totalProductionDrop,
    subscriptionStatus, subscriptionNote,
    \* ---- an earlier call of getRecommendedMargins, kept for comparison
    prevCall,
    \* ---- the Voc calculation method (line 328) and an earlier evaluation of it
    panel, climate, seriesCount, vocCold, prevClimate, prevVocCold,
    \* ---- DC audit page (lines 60-61, 297-399)
    exportOptions, vocColdString, vmpHotString, vocCellClass, disconnectVerdict,
    \* ---- AC page (lines 441, 488, 500)
    feederDropClass, branchDropClasses, productionDropClass,
    \* ---- pagination (lines 159-171) and the pages rendered (lines 197-694)
    grouped,                \* groupMaterialsByCategory(materials)
    printableRows, materialChunks, materialPages, totalPages, pages

marginVars == <<roofType, windZone, baseMargin, sideMargin, topBottomMargin, margins,
                prevCall>>
vocVars == <<panel, climate, seriesCount, vocCold, prevClimate, prevVocCold>>
dcPageVars == <<exportOptions, vocColdString, vmpHotString, vocCellClass,
                disconnectVerdict>>
acPageVars == <<feederDropClass, branchDropClasses, productionDropClass>>
pagesVars == <<grouped, printableRows, materialChunks, materialPages, totalPages,
               pages>>
moreVars == <<vocVars, dcPageVars, acPageVars, pagesVars>>
propVars == <<phase, configuredStrings, agcpValue, fieldsPowerW, report,
              voltageDrop, microBranchesReport>>
dcVars == <<isThreePhase, invVmaxLimit, invVmpMin, stringsAnalysis, mpptCount,
            mpptParallelCounts, maxParallelStringsOnAnyMppt, gpvRequired>>
dropVars == <<hasMicroBranches, worstBranchDrop, totalProductionDrop>>
subVars == <<subscriptionStatus, subscriptionNote>>
vars == <<pc, marginVars, propVars, dcVars, dropVars, subVars, moreVars>>

---------------------------------------------------------------------------
(* Optional values.                                                        *)

Null == << >>
Some(v) == << v >>
IsNull(x) == x = << >>
Get(x) == x[1]

\* JavaScript  x || d  on an optional number: null, undefined and 0 are falsy.
OrNum(x, d) == IF IsNull(x) \/ Get(x) = 0 THEN d ELSE Get(x)

\* obj?.field : undefined when obj is null / undefined, never a TypeError.
OptField(obj, f) == IF IsNull(obj) THEN Null ELSE Get(obj)[f]

Max2(a, b) == IF a >= b THEN a ELSE b

\* Value of a variable that the evaluated function has not assigned (yet).
Idle == "idle"

IdleVoc ==
    /\ panel = Idle /\ climate = Idle /\ seriesCount = Idle
    /\ vocCold = Idle /\ prevClimate = Idle /\ prevVocCold = Idle
IdleDcPage ==
    /\ exportOptions = Idle /\ vocColdString = Idle /\ vmpHotString = Idle
    /\ vocCellClass = Idle /\ disconnectVerdict = Idle
IdleAcPage ==
    /\ feederDropClass = Idle /\ branchDropClasses = Idle
    /\ productionDropClass = Idle
IdlePages ==
    /\ grouped = Idle
    /\ printableRows = Idle /\ materialChunks = Idle /\ materialPages = Idle
    /\ totalPages = Idle /\ pages = Idle
IdleMore == IdleVoc /\ IdleDcPage /\ IdleAcPage /\ IdlePages

---------------------------------------------------------------------------
(* getRecommendedMargins                                                   *)

\* enum members named in the function, one stand-in for every other member
RoofTypes == {"TUILE_MECANIQUE", "TUILE_PLATE", "TUILE_CANAL", "FIBROCIMENT", "AUTRE"}
\* WindZone.ZONE_1 .. ZONE_5, and 0 for a value outside the enum
WindZones == 0..5

BaseMarginOf_WrongZone5(z) ==
    CASE z \in {1, 2} -> 300
      [] z = 3 -> 400
      [] z = 4 -> 500
      [] z = 5 -> 500
      [] OTHER -> 300

BaseMarginOf_Zone4Low(z) ==
    CASE z \in {1, 2} -> 300
      [] z = 3 -> 400
      [] z = 4 -> 350
      [] z = 5 -> 600
      [] OTHER -> 300

BaseMarginOf_NoDefault(z) ==
    CASE z \in {1, 2} -> 300
      [] z = 3 -> 400
      [] z = 4 -> 500
      [] z = 5 -> 600
      [] OTHER -> 0

\* let baseMargin = 300; switch (windZone) {...}
BaseMarginOf(z) ==
    CASE z \in {1, 2} -> 300
      [] z = 3 -> 400
      [] z = 4 -> 500
      [] z = 5 -> 600
      [] OTHER -> 300

SideAdjust_Swapped(r) ==
    CASE r = "TUILE_CANAL" -> 100
      [] r = "FIBROCIMENT" -> 50
      [] OTHER -> 0

\* switch (roofType) {...}: what is added to sideMargin
SideAdjust(r) ==
    CASE r = "TUILE_CANAL" -> 50
      [] r = "FIBROCIMENT" -> 100
      [] OTHER -> 0

TopBottomAdjust_LikeSide(r) == SideAdjust(r)

\* switch (roofType) {...}: what is added to topBottomMargin (no case touches it)
TopBottomAdjust(r) == 0

InitMargins ==
    /\ pc = "margins_entry"
    /\ roofType \in RoofTypes
    /\ windZone \in WindZones
    /\ baseMargin = Idle /\ sideMargin = Idle /\ topBottomMargin = Idle
    /\ margins = Idle
    /\ phase = Idle /\ configuredStrings = Idle /\ agcpValue = Idle
    /\ fieldsPowerW = Idle /\ report = Idle /\ voltageDrop = Idle
    /\ microBranchesReport = Idle
    /\ isThreePhase = Idle /\ invVmaxLimit = Idle /\ invVmpMin = Idle
    /\ stringsAnalysis = Idle /\ mpptCount = Idle
    /\ mpptParallelCounts = Idle /\ maxParallelStringsOnAnyMppt = Idle
    /\ gpvRequired = Idle
    /\ hasMicroBranches = Idle /\ worstBranchDrop = Idle
    /\ totalProductionDrop = Idle
    /\ subscriptionStatus = Idle /\ subscriptionNote = Idle
    /\ prevCall = Null
    /\ IdleMore

\* lines 707-724
SwitchWindZone ==
    /\ pc = "margins_entry"
    /\ baseMargin' = BaseMarginOf(windZone)
    /\ pc' = "margins_zone_done"
    /\ UNCHANGED <<prevCall, moreVars, roofType, windZone, sideMargin, topBottomMargin, margins,
                   propVars, dcVars, dropVars, subVars>>

\* lines 727-745
SwitchRoofType ==
    /\ pc = "margins_zone_done"
    /\ sideMargin' = baseMargin + SideAdjust(roofType)
    /\ topBottomMargin' = baseMargin + TopBottomAdjust(roofType)
    /\ pc' = "margins_roof_done"
    /\ UNCHANGED <<prevCall, moreVars, roofType, windZone, baseMargin, margins,
                   propVars, dcVars, dropVars, subVars>>

\* lines 747-752
ReturnMargins ==
    /\ pc = "margins_roof_done"
    /\ margins' = [top |-> topBottomMargin, bottom |-> topBottomMargin,
                   left |-> sideMargin, right |-> sideMargin]
    /\ pc' = "margins_returned"
    /\ UNCHANGED <<prevCall, moreVars, roofType, windZone, baseMargin, sideMargin, topBottomMargin,
                   propVars, dcVars, dropVars, subVars>>

\* line 706: getRecommendedMargins is called a second time, the first call's
\* arguments and result being kept beside the new ones
CallAgain ==
    /\ pc = "margins_returned"
    /\ prevCall = Null
    /\ prevCall' = Some([roofType |-> roofType, windZone |-> windZone,
                         margins |-> margins])
    /\ roofType' \in RoofTypes
    /\ windZone' \in WindZones
    /\ baseMargin' = Idle /\ sideMargin' = Idle /\ topBottomMargin' = Idle
    /\ margins' = Idle
    /\ pc' = "margins_entry"
    /\ UNCHANGED <<moreVars, propVars, dcVars, dropVars, subVars>>

NextMargins == SwitchWindZone \/ SwitchRoofType \/ ReturnMargins \/ CallAgain

SpecMargins == InitMargins /\ [][NextMargins]_vars

---------------------------------------------------------------------------
(* PdfReport, lines 54-77: inverter limits, strings analysis, gPV rule     *)

MaxStrings == 4     \* longest configuredStrings list explored
MaxMppt == 3        \* largest mpptIndex explored

Phases == {"Mono", "Tri"}

\* ConfiguredString: mpptIndex is a positive integer, or absent in
\* configurations that predate the per-MPPT assignment
ConfiguredStrings == [mpptIndex : {Null} \cup {Some(i) : i \in 1..MaxMppt}]

SeqsUpTo(S, n) == UNION {[1..k -> S] : k \in 0..n}

\* StringAnalyzer (services/calculatorService): the MPPT index of a string
AnalyzerMpptIndex(s) == IF IsNull(s.mpptIndex) THEN 1 ELSE Get(s.mpptIndex)

RECURSIVE ResultsFrom(_, _)
ResultsFrom(i, indices) ==
    IF i > MaxMppt THEN << >>
    ELSE (IF i \in indices THEN << [mpptIndex |-> i] >> ELSE << >>)
         \o ResultsFrom(i + 1, indices)

\* StringAnalyzer (services/calculatorService): one StringResult per distinct
\* MPPT index present among the configured strings
StringAnalyzer(strs) ==
    ResultsFrom(1, {AnalyzerMpptIndex(strs[k]) : k \in DOMAIN strs})

\* The values of the `report` prop for a project: no report, a report without
\* details, or details whose limits and analysis may each be absent.
ReportsFor(cfg) ==
    LET strs == IF IsNull(cfg) THEN << >> ELSE Get(cfg)
    IN  {Null, Some([details |-> Null])}
        \cup { Some([details |-> Some([vmaxInverter |-> vmax,
                                       vminMppt |-> vmin,
                                       stringsAnalysis |-> sa])]) :
                 vmax \in {Null, Some(0), Some(550)},
                 vmin \in {Null, Some(120)},
                 sa \in {Null, Some(StringAnalyzer(strs))} }

\* report?.details?.f
ReportDetail(rep, f) == OptField(OptField(rep, "details"), f)

\* Whether evaluating report?.details?.f raises a TypeError: optional chaining
\* stops at a null / undefined report or details.
ReportDetailThrows(rep) == FALSE

InverterVmaxDefault_Swapped(threePhase) == IF threePhase THEN 600 ELSE 1000

\* (isThreePhase ? 1000 : 600)
InverterVmaxDefault(threePhase) == IF threePhase THEN 1000 ELSE 600

\* report?.details?.vminMppt || 80
InverterVmpMinOf(rep) == OrNum(ReportDetail(rep, "vminMppt"), 80)

MpptIndexOf_DefaultTwo(s) == IF IsNull(s.mpptIndex) \/ Get(s.mpptIndex) = 0 THEN 2 ELSE Get(s.mpptIndex)

\* Number(s.mpptIndex || 1)
MpptIndexOf(s) == IF IsNull(s.mpptIndex) \/ Get(s.mpptIndex) = 0 THEN 1 ELSE Get(s.mpptIndex)

\* acc[idx] = (acc[idx] || 0) + 1; return acc
CountStep(acc, s) ==
    LET idx == MpptIndexOf(s)
    IN  [k \in DOMAIN acc \cup {idx} |->
            IF k = idx THEN (IF k \in DOMAIN acc THEN acc[k] ELSE 0) + 1
            ELSE acc[k]]

RECURSIVE ReduceCounts(_, _)
\* configuredStrings.reduce((acc, s) => ..., {})
ReduceCounts(strs, acc) ==
    IF strs = << >> THEN acc
    ELSE ReduceCounts(Tail(strs), CountStep(acc, Head(strs)))

RECURSIVE ReduceMax(_, _, _)
\* Object.values(counts).reduce((m, v) => Math.max(m, Number(v) || 0), 0),
\* the values taken in ascending key order
ReduceMax(counts, keys, m) ==
    IF keys = {} THEN m
    ELSE LET k == CHOOSE x \in keys : \A y \in keys : x <= y
         IN  ReduceMax(counts, keys \ {k}, Max2(m, counts[k]))

MpptCountOf_OffByOne(sa) == Len(sa) + 1

\* stringsAnalysis.length
MpptCountOf(sa) == Len(sa)

GpvRequiredOf_AtLeastTwo(maxParallel) == maxParallel >= 2

\* maxParallelStringsOnAnyMppt > 2
GpvRequiredOf(maxParallel) == maxParallel > 2

InitDc ==
    /\ pc = "dc_entry"
    /\ phase \in Phases
    /\ configuredStrings \in {Null} \cup {Some(s) : s \in SeqsUpTo(ConfiguredStrings, MaxStrings)}
    /\ report \in ReportsFor(configuredStrings)
    /\ agcpValue = Idle /\ fieldsPowerW = Idle /\ voltageDrop = Idle
    /\ microBranchesReport = Idle
    /\ roofType = Idle /\ windZone = Idle
    /\ baseMargin = Idle /\ sideMargin = Idle /\ topBottomMargin = Idle
    /\ margins = Idle
    /\ isThreePhase = Idle /\ invVmaxLimit = Idle /\ invVmpMin = Idle
    /\ stringsAnalysis = Idle /\ mpptCount = Idle
    /\ mpptParallelCounts = Idle /\ maxParallelStringsOnAnyMppt = Idle
    /\ gpvRequired = Idle
    /\ hasMicroBranches = Idle /\ worstBranchDrop = Idle
    /\ totalProductionDrop = Idle
    /\ subscriptionStatus = Idle /\ subscriptionNote = Idle
    /\ prevCall = Idle
    /\ IdleMore

\* lines 54, 63-64
ComputeInverterLimits ==
    /\ pc = "dc_entry"
    /\ isThreePhase' = (phase = "Tri")
    /\ IF ReportDetailThrows(report)
       THEN /\ pc' = "threw"
            /\ UNCHANGED <<invVmaxLimit, invVmpMin>>
       ELSE /\ invVmaxLimit' = OrNum(ReportDetail(report, "vmaxInverter"),
                                     InverterVmaxDefault(isThreePhase'))
            /\ invVmpMin' = InverterVmpMinOf(report)
            /\ pc' = "limits_done"
    /\ UNCHANGED <<moreVars, marginVars, propVars, stringsAnalysis, mpptCount,
                   mpptParallelCounts, maxParallelStringsOnAnyMppt, gpvRequired,
                   dropVars, subVars>>

\* lines 66-67
ReadStringsAnalysis ==
    /\ pc = "limits_done"
    /\ LET sa == ReportDetail(report, "stringsAnalysis")
       IN  stringsAnalysis' = (IF IsNull(sa) THEN << >> ELSE Get(sa))
    /\ mpptCount' = MpptCountOf(stringsAnalysis')
    /\ pc' = "analysis_done"
    /\ UNCHANGED <<moreVars, marginVars, propVars, isThreePhase, invVmaxLimit, invVmpMin,
                   mpptParallelCounts, maxParallelStringsOnAnyMppt, gpvRequired,
                   dropVars, subVars>>

\* lines 69-77
CountParallelStrings ==
    /\ pc = "analysis_done"
    /\ LET strs == IF IsNull(configuredStrings) THEN << >> ELSE Get(configuredStrings)
       IN  mpptParallelCounts' = ReduceCounts(strs, << >>)
    /\ maxParallelStringsOnAnyMppt' =
           ReduceMax(mpptParallelCounts', DOMAIN mpptParallelCounts', 0)
    /\ gpvRequired' = GpvRequiredOf(maxParallelStringsOnAnyMppt')
    /\ pc' = "dc_done"
    /\ UNCHANGED <<moreVars, marginVars, propVars, isThreePhase, invVmaxLimit, invVmpMin,
                   stringsAnalysis, mpptCount, dropVars, subVars>>

NextDc == ComputeInverterLimits \/ ReadStringsAnalysis \/ CountParallelStrings

SpecDc == InitDc /\ [][NextDc]_vars

---------------------------------------------------------------------------
(* PdfReport, lines 79-81: production voltage drop                         *)

MaxDrop == 3        \* largest drop explored, in units of half a percent
MaxBranches == 3    \* longest microBranchesReport.branches explored

\* MicroBranch: dropPercent is a derived, non-negative number
MicroBranches == [dropPercent : 0..MaxDrop]

MicroBranchesReports ==
    {Null, Some([branches |-> Null])}
    \cup {Some([branches |-> Some(bs)]) : bs \in SeqsUpTo(MicroBranches, MaxBranches)}

\* !!(microBranchesReport && microBranchesReport.branches
\*    && microBranchesReport.branches.length > 0)
HasMicroBranchesOf(mbr) ==
    /\ ~IsNull(mbr)
    /\ ~IsNull(Get(mbr).branches)
    /\ Len(Get(Get(mbr).branches)) > 0

\* branches.map((b) => b.dropPercent || 0)
BranchDrops(bs) == [k \in DOMAIN bs |-> OrNum(Some(bs[k].dropPercent), 0)]

RECURSIVE MathMin(_)
MathMin(xs) ==
    IF Len(xs) = 1 THEN xs[1]
    ELSE LET m == MathMin(Tail(xs)) IN IF Head(xs) <= m THEN Head(xs) ELSE m

RECURSIVE MathMax(_)
\* Math.max(...xs) for a non-empty xs
MathMax(xs) ==
    IF Len(xs) = 1 THEN xs[1] ELSE Max2(Head(xs), MathMax(Tail(xs)))

WorstBranchDropOf_Min(has, mbr) ==
    IF has THEN MathMin(BranchDrops(Get(Get(mbr).branches))) ELSE 0

\* hasMicroBranches ? Math.max(...branches.map(...)) : 0
WorstBranchDropOf(has, mbr) ==
    IF has THEN MathMax(BranchDrops(Get(Get(mbr).branches))) ELSE 0

TotalProductionDropOf_WorstOnly(has, worst, vd) ==
    IF has THEN worst ELSE OrNum(vd, 0)

\* hasMicroBranches ? (worstBranchDrop + (voltageDrop || 0)) : (voltageDrop || 0)
TotalProductionDropOf(has, worst, vd) ==
    IF has THEN worst + OrNum(vd, 0) ELSE OrNum(vd, 0)

InitDrop ==
    /\ pc = "drop_entry"
    /\ voltageDrop \in {Null} \cup {Some(d) : d \in 0..MaxDrop}
    /\ microBranchesReport \in MicroBranchesReports
    /\ phase = Idle /\ configuredStrings = Idle /\ agcpValue = Idle
    /\ fieldsPowerW = Idle /\ report = Idle
    /\ roofType = Idle /\ windZone = Idle
    /\ baseMargin = Idle /\ sideMargin = Idle /\ topBottomMargin = Idle
    /\ margins = Idle
    /\ isThreePhase = Idle /\ invVmaxLimit = Idle /\ invVmpMin = Idle
    /\ stringsAnalysis = Idle /\ mpptCount = Idle
    /\ mpptParallelCounts = Idle /\ maxParallelStringsOnAnyMppt = Idle
    /\ gpvRequired = Idle
    /\ hasMicroBranches = Idle /\ worstBranchDrop = Idle
    /\ totalProductionDrop = Idle
    /\ subscriptionStatus = Idle /\ subscriptionNote = Idle
    /\ prevCall = Idle
    /\ feederDropClass = Null /\ branchDropClasses = Null
    /\ productionDropClass = Null
    /\ IdleVoc /\ IdleDcPage /\ IdlePages

\* line 79
ComputeHasMicroBranches ==
    /\ pc = "drop_entry"
    /\ hasMicroBranches' = HasMicroBranchesOf(microBranchesReport)
    /\ pc' = "has_branches_done"
    /\ UNCHANGED <<moreVars, marginVars, propVars, dcVars, worstBranchDrop,
                   totalProductionDrop, subVars>>

\* line 80
ComputeWorstBranchDrop ==
    /\ pc = "has_branches_done"
    /\ worstBranchDrop' = WorstBranchDropOf(hasMicroBranches, microBranchesReport)
    /\ pc' = "worst_done"
    /\ UNCHANGED <<moreVars, marginVars, propVars, dcVars, hasMicroBranches,
                   totalProductionDrop, subVars>>

\* line 81
ComputeTotalProductionDrop ==
    /\ pc = "worst_done"
    /\ totalProductionDrop' =
           TotalProductionDropOf(hasMicroBranches, worstBranchDrop, voltageDrop)
    /\ pc' = "drop_done"
    /\ UNCHANGED <<moreVars, marginVars, propVars, dcVars, hasMicroBranches,
                   worstBranchDrop, subVars>>

DropTarget == 2     \* the 1 % target, in units of half a percent

DropClassOf_AtTarget(d, red, green) == IF d >= DropTarget THEN red ELSE green

\* d > 1 ? red : green
DropClassOf(d, red, green) == IF d > DropTarget THEN red ELSE green

\* microBranchesReport && microBranchesReport.branches?.length > 0
BranchSectionShown(mbr) ==
    /\ ~IsNull(mbr)
    /\ ~IsNull(Get(mbr).branches)
    /\ Len(Get(Get(mbr).branches)) > 0

\* lines 402-537: the AC page, always rendered.  voltageDrop.toFixed(2) of a
\* missing voltageDrop is a TypeError.
RenderAcPage ==
    /\ pc = "drop_done"
    /\ IF IsNull(voltageDrop)
       THEN /\ pc' = "threw"
            /\ UNCHANGED acPageVars
       ELSE /\ feederDropClass' =
                   Some(DropClassOf(Get(voltageDrop), "text-red-600", "text-green-600"))
            /\ IF BranchSectionShown(microBranchesReport)
               THEN LET bs == Get(Get(microBranchesReport).branches)
                    IN  /\ branchDropClasses' =
                               Some([k \in DOMAIN bs |->
                                       DropClassOf(bs[k].dropPercent,
                                                   "text-red-600", "text-green-700")])
                        /\ productionDropClass' =
                               Some(DropClassOf(totalProductionDrop,
                                                "text-red-700", "text-green-700"))
               ELSE UNCHANGED <<branchDropClasses, productionDropClass>>
            /\ pc' = "ac_page_done"
    /\ UNCHANGED <<vocVars, dcPageVars, pagesVars,
                   marginVars, propVars, dcVars, dropVars, subVars>>

NextDrop == ComputeHasMicroBranches \/ ComputeWorstBranchDrop
            \/ ComputeTotalProductionDrop \/ RenderAcPage

SpecDrop == InitDrop /\ [][NextDrop]_vars

---------------------------------------------------------------------------
(* PdfReport, lines 51, 85-89 and 248-254: subscription status and note    *)

MaxFields == 2      \* most roof fields explored

\* power of one field in W: panels.model.power * rows * columns
FieldPowersW == {2000, 5000, 9000}

\* project.fields is never empty: firstField.panels is read unguarded (line 56)
FieldLists == SeqsUpTo(FieldPowersW, MaxFields) \ {<< >>}

\* project.inverterConfig.agcpValue: absent, or the rating of the customer's
\* main breaker
AgcpValues == {Null, Some(30), Some(60)}

RECURSIVE SumSeq(_)
\* project.fields.reduce((sum, f) => sum + f.power * f.rows * f.columns, 0)
SumSeq(xs) == IF xs = << >> THEN 0 ELSE Head(xs) + SumSeq(Tail(xs))

\* SubscriptionAdvisor: the standard utility tiers, in kVA
SubscriptionTiers(ph) == IF ph = "Mono" THEN {3, 6, 9, 12} ELSE {12, 18, 24, 30, 36}

\* SubscriptionAdvisor: smallest tier >= installed power (headroom factor 1),
\* none when the power exceeds the largest tier
RecommendedKvaOf(ph, kwc) ==
    LET fit == {t \in SubscriptionTiers(ph) : t >= kwc}
    IN  IF fit = {} THEN Null
        ELSE Some(CHOOSE t \in fit : \A u \in fit : t <= u)

\* SubscriptionAdvisor: the subscribed capacity it may derive from the AGCP
\* rating. The conversion is not specified: an absent rating gives an unknown
\* capacity, a rating gives any capacity or none.
SubscribedKvaFor(agcp) ==
    IF IsNull(agcp) THEN {Null}
    ELSE {Null} \cup {Some(k) : k \in {3, 6, 9, 12, 18, 36}}

getSubscriptionStatus_StrictlyGreater(ph, kwc, subscribed) ==
    LET rec == RecommendedKvaOf(ph, kwc)
    IN  [recommendedKva |-> rec,
         subscribedKva |-> subscribed,
         isOk |-> /\ ~IsNull(subscribed)
                  /\ Get(subscribed) > (IF IsNull(rec) THEN 0 ELSE Get(rec)),
         phase |-> ph]

\* SubscriptionAdvisor: isOk = subscribedKva != null && subscribedKva >= recommendedKva
\* (a null recommendedKva compares as 0)
getSubscriptionStatus(ph, kwc, subscribed) ==
    LET rec == RecommendedKvaOf(ph, kwc)
    IN  [recommendedKva |-> rec,
         subscribedKva |-> subscribed,
         isOk |-> /\ ~IsNull(subscribed)
                  /\ Get(subscribed) >= (IF IsNull(rec) THEN 0 ELSE Get(rec)),
         phase |-> ph]

SubscriptionNoteOf_NullAsFailure(st) ==
    IF st.isOk THEN "compatible" ELSE "a_faire_evoluer"

\* subscribedKva == null ? 'non renseignée' : isOk ? 'compatible' : 'à faire évoluer'
SubscriptionNoteOf(st) ==
    IF IsNull(st.subscribedKva) THEN "non_renseignee"
    ELSE IF st.isOk THEN "compatible"
    ELSE "a_faire_evoluer"

InitSub ==
    /\ pc = "sub_entry"
    /\ phase \in Phases
    /\ agcpValue \in AgcpValues
    /\ fieldsPowerW \in FieldLists
    /\ configuredStrings = Idle /\ report = Idle /\ voltageDrop = Idle
    /\ microBranchesReport = Idle
    /\ roofType = Idle /\ windZone = Idle
    /\ baseMargin = Idle /\ sideMargin = Idle /\ topBottomMargin = Idle
    /\ margins = Idle
    /\ isThreePhase = Idle /\ invVmaxLimit = Idle /\ invVmpMin = Idle
    /\ stringsAnalysis = Idle /\ mpptCount = Idle
    /\ mpptParallelCounts = Idle /\ maxParallelStringsOnAnyMppt = Idle
    /\ gpvRequired = Idle
    /\ hasMicroBranches = Idle /\ worstBranchDrop = Idle
    /\ totalProductionDrop = Idle
    /\ subscriptionStatus = Idle /\ subscriptionNote = Idle
    /\ prevCall = Idle
    /\ IdleMore

\* lines 51, 54, 85-89
ComputeSubscriptionStatus ==
    /\ pc = "sub_entry"
    /\ isThreePhase' = (phase = "Tri")
    /\ \E subscribed \in SubscribedKvaFor(agcpValue) :
          subscriptionStatus' =
              getSubscriptionStatus(IF isThreePhase' THEN "Tri" ELSE "Mono",
                                    SumSeq(fieldsPowerW) \div 1000,
                                    subscribed)
    /\ pc' = "status_done"
    /\ UNCHANGED <<moreVars, marginVars, propVars, invVmaxLimit, invVmpMin, stringsAnalysis,
                   mpptCount, mpptParallelCounts, maxParallelStringsOnAnyMppt,
                   gpvRequired, dropVars, subscriptionNote>>

\* lines 248-254
RenderSubscriptionNote ==
    /\ pc = "status_done"
    /\ subscriptionNote' = SubscriptionNoteOf(subscriptionStatus)
    /\ pc' = "sub_done"
    /\ UNCHANGED <<moreVars, marginVars, propVars, dcVars, dropVars, subscriptionStatus>>

NextSub == ComputeSubscriptionStatus \/ RenderSubscriptionNote

SpecSub == InitSub /\ [][NextSub]_vars

---------------------------------------------------------------------------
(* PdfReport, lines 58 and 326-330: the Voc calculation method             *)
(*                                                                         *)
(* Units: Voc_stc and Vmp_stc in tenths of a volt, k_voc and k_vmp in      *)
(* hundredths of a percent per degree, temperatures in degrees; the        *)
(* formula's exact result is then in 1/100000 V.  Isc_stc is in hundredths *)
(* of an ampere.                                                           *)

MaxPanels == 11     \* most modules in series explored

\* activePanel.electrical: the reference module, a module whose chain reaches
\* 550.0 V at 0 degrees, and a module with a positive coefficient
PanelSpecs ==
    { [vocStc |-> 456, tempCoeffVoc |-> -27, vmpStc |-> 380, tempCoeffVmp |-> -34,
       iscStc |-> 1420],
      [vocStc |-> 500, tempCoeffVoc |-> -40, vmpStc |-> 420, tempCoeffVmp |-> -40,
       iscStc |-> 1100],
      [vocStc |-> 400, tempCoeffVoc |-> 10, vmpStc |-> 330, tempCoeffVmp |-> 0,
       iscStc |-> 2800] }

\* climate = getLocationClimate(postalCode, altitude): tempMin < tempMax
Climates == [tempMin : {-20, -10, 0}, tempMax : {35, 40}]

VocColdOf_PlusRef(p, tMin, n) ==
    p.vocStc * (10000 + p.tempCoeffVoc * (tMin + 25)) * n

VocColdOf_HeatInsteadOfCold(p, tMin, n) ==
    p.vocStc * (10000 + p.tempCoeffVoc * (25 - tMin)) * n

\* Uoc(Tmin) = Uoc_stc x [1 + (k_voc / 100) x (Tmin - 25)] x N_panneaux
VocColdOf(p, tMin, n) ==
    p.vocStc * (10000 + p.tempCoeffVoc * (tMin - 25)) * n

\* x.toFixed(1) of a non-negative value in 1/100000 V, in tenths of a volt
ToFixed1(x) == (x + 5000) \div 10000

InitVoc ==
    /\ pc = "voc_entry"
    /\ panel \in PanelSpecs
    /\ climate \in Climates
    /\ seriesCount \in 1..MaxPanels
    /\ vocCold = Null /\ prevClimate = Null /\ prevVocCold = Null
    /\ roofType = Idle /\ windZone = Idle
    /\ baseMargin = Idle /\ sideMargin = Idle /\ topBottomMargin = Idle
    /\ margins = Idle /\ prevCall = Idle
    /\ phase = Idle /\ configuredStrings = Idle /\ agcpValue = Idle
    /\ fieldsPowerW = Idle /\ report = Idle /\ voltageDrop = Idle
    /\ microBranchesReport = Idle
    /\ isThreePhase = Idle /\ invVmaxLimit = Idle /\ invVmpMin = Idle
    /\ stringsAnalysis = Idle /\ mpptCount = Idle
    /\ mpptParallelCounts = Idle /\ maxParallelStringsOnAnyMppt = Idle
    /\ gpvRequired = Idle
    /\ hasMicroBranches = Idle /\ worstBranchDrop = Idle
    /\ totalProductionDrop = Idle
    /\ subscriptionStatus = Idle /\ subscriptionNote = Idle
    /\ IdleDcPage /\ IdleAcPage /\ IdlePages

\* lines 326-330: the method applied to the panel, the climate and the chain
EvalVocCold ==
    /\ pc = "voc_entry"
    /\ vocCold' = Some(VocColdOf(panel, climate.tempMin, seriesCount))
    /\ pc' = "voc_done"
    /\ UNCHANGED <<panel, climate, seriesCount, prevClimate, prevVocCold,
                   marginVars, propVars, dcVars, dropVars, subVars,
                   dcPageVars, acPageVars, pagesVars>>

\* line 58: the project moves to another location; the earlier evaluation is
\* kept beside the new one
ChangeClimate ==
    /\ pc = "voc_done"
    /\ prevClimate = Null
    /\ \E c \in Climates :
          /\ climate' = c
          /\ prevClimate' = Some(climate)
          /\ prevVocCold' = vocCold
    /\ vocCold' = Null
    /\ pc' = "voc_entry"
    /\ UNCHANGED <<panel, seriesCount,
                   marginVars, propVars, dcVars, dropVars, subVars,
                   dcPageVars, acPageVars, pagesVars>>

NextVoc == EvalVocCold \/ ChangeClimate

SpecVoc == InitVoc /\ [][NextVoc]_vars

---------------------------------------------------------------------------
(* PdfReport, lines 60-61 and 297-399: the DC audit page                   *)
(*                                                                         *)
(* The compatibility report comes from services/calculatorService, which   *)
(* is outside src/; its StringAnalyzer is modelled from section 4.1 of the *)
(* specification.  Report voltages are in 1/100000 V, report currents in   *)
(* 1/10000 A, inverter limits and disconnect ratings in volts and amperes. *)

MaxDcStrings == 2   \* most configured strings explored on the DC audit page

DcPanelCounts == {1, 10, MaxPanels}

DcConfiguredStrings ==
    [mpptIndex : {Null, Some(1), Some(2)}, panelCount : DcPanelCounts]

\* vmpHot = vmpStc x (1 + tempCoeffVmp/100 x (tempMax - 25)) x panelCount
VmpHotOf(p, tMax, n) ==
    p.vmpStc * (10000 + p.tempCoeffVmp * (tMax - 25)) * n

\* iscCalculation = iscStc x 1.25
IscCalculationOf(p) == p.iscStc * 125

SetMax(S) == IF S = {} THEN 0 ELSE CHOOSE x \in S : \A y \in S : y <= x

StringsOn(strs, i) == {k \in DOMAIN strs : AnalyzerMpptIndex(strs[k]) = i}

RECURSIVE PanelsOn(_, _)
PanelsOn(strs, i) ==
    IF strs = << >> THEN 0
    ELSE (IF AnalyzerMpptIndex(Head(strs)) = i THEN Head(strs).panelCount ELSE 0)
         + PanelsOn(Tail(strs), i)

\* the StringResult of one MPPT: voltages of its longest chain
StringResultOf(strs, i, p, c) ==
    [mpptIndex |-> i,
     totalPanelCount |-> PanelsOn(strs, i),
     vocCold |-> SetMax({VocColdOf(p, c.tempMin, strs[k].panelCount) :
                            k \in StringsOn(strs, i)}),
     vmpHot |-> SetMax({VmpHotOf(p, c.tempMax, strs[k].panelCount) :
                           k \in StringsOn(strs, i)}),
     iscCalculation |-> IscCalculationOf(p)]

RECURSIVE AnalysisFrom(_, _, _, _)
AnalysisFrom(i, strs, p, c) ==
    IF i > MaxMppt THEN << >>
    ELSE (IF StringsOn(strs, i) # {} THEN << StringResultOf(strs, i, p, c) >>
          ELSE << >>)
         \o AnalysisFrom(i + 1, strs, p, c)

\* CompatibilityReport.details: the aggregates are the maximum across strings
CompatibilityDetails(strs, p, c, vmax) ==
    LET sa == AnalysisFrom(1, strs, p, c)
    IN  [vocCold |-> Some(SetMax({sa[k].vocCold : k \in DOMAIN sa})),
         vmpHot |-> Some(SetMax({sa[k].vmpHot : k \in DOMAIN sa})),
         iscCalculation |-> Some(IscCalculationOf(p)),
         vmaxInverter |-> vmax,
         vminMppt |-> Some(120),
         stringsAnalysis |-> Some(sa)]

\* The values of the `report` prop on the DC audit page: no report, or the
\* report of the project with or without an inverter limit.
DcReportsFor(strs, p, c) ==
    {Null} \cup { Some([details |-> Some(CompatibilityDetails(strs, p, c, vmax))]) :
                    vmax \in {Null, Some(550)} }

VocColdStringOf_ReadsVmp(rep) == OrNum(ReportDetail(rep, "vmpHot"), 0)

\* report?.details?.vocCold || 0
VocColdStringOf(rep) == OrNum(ReportDetail(rep, "vocCold"), 0)

\* report?.details?.vmpHot || 0
VmpHotStringOf(rep) == OrNum(ReportDetail(rep, "vmpHot"), 0)

\* a limit in volts, in the unit of the report voltages
Volts(v) == v * 100000

\* a current in amperes, in the unit of the report currents
Amperes(a) == a * 10000

VocCellClassOf_AtLimit(voc, limit) ==
    IF voc >= Volts(limit) THEN "text-red-600" ELSE "text-slate-800"

\* vocColdString > invVmaxLimit ? 'text-red-600' : 'text-slate-800'
VocCellClassOf(voc, limit) ==
    IF voc > Volts(limit) THEN "text-red-600" ELSE "text-slate-800"

\* the verdict cell of the "Sectionneur DC (Load Break)" row
DisconnectVerdictOf(rep, voc) == "VALIDE"

InitDcPage ==
    /\ pc = "voltages_entry"
    /\ phase \in Phases
    /\ panel \in PanelSpecs
    /\ climate \in Climates
    /\ configuredStrings \in {Some(s) : s \in SeqsUpTo(DcConfiguredStrings, MaxDcStrings)}
    /\ report \in DcReportsFor(Get(configuredStrings), panel, climate)
    /\ exportOptions \in [includeDatasheets : BOOLEAN, includeGuides : {FALSE},
                          includeRegulations : {FALSE}]
    /\ vocColdString = Null /\ vmpHotString = Null
    /\ vocCellClass = Null /\ disconnectVerdict = Null
    /\ seriesCount = Idle /\ vocCold = Idle
    /\ prevClimate = Idle /\ prevVocCold = Idle
    /\ agcpValue = Idle /\ fieldsPowerW = Idle /\ voltageDrop = Idle
    /\ microBranchesReport = Idle
    /\ roofType = Idle /\ windZone = Idle
    /\ baseMargin = Idle /\ sideMargin = Idle /\ topBottomMargin = Idle
    /\ margins = Idle /\ prevCall = Idle
    /\ isThreePhase = Idle /\ invVmaxLimit = Idle /\ invVmpMin = Idle
    /\ stringsAnalysis = Idle /\ mpptCount = Idle
    /\ mpptParallelCounts = Idle /\ maxParallelStringsOnAnyMppt = Idle
    /\ gpvRequired = Idle
    /\ hasMicroBranches = Idle /\ worstBranchDrop = Idle
    /\ totalProductionDrop = Idle
    /\ subscriptionStatus = Idle /\ subscriptionNote = Idle
    /\ IdleAcPage /\ IdlePages

\* lines 60-61
ReadReportVoltages ==
    /\ pc = "voltages_entry"
    /\ vocColdString' = Some(VocColdStringOf(report))
    /\ vmpHotString' = Some(VmpHotStringOf(report))
    /\ pc' = "dc_entry"
    /\ UNCHANGED <<exportOptions, vocCellClass, disconnectVerdict,
                   vocVars, acPageVars, pagesVars,
                   marginVars, propVars, dcVars, dropVars, subVars>>

\* lines 297-399: the page is rendered when includeDatasheets is set
RenderDcPage ==
    /\ pc = "dc_done"
    /\ IF exportOptions.includeDatasheets
       THEN /\ vocCellClass' = Some(VocCellClassOf(Get(vocColdString), invVmaxLimit))
            /\ disconnectVerdict' =
                   Some(DisconnectVerdictOf(report, Get(vocColdString)))
       ELSE UNCHANGED <<vocCellClass, disconnectVerdict>>
    /\ pc' = "dc_page_done"
    /\ UNCHANGED <<exportOptions, vocColdString, vmpHotString,
                   vocVars, acPageVars, pagesVars,
                   marginVars, propVars, dcVars, dropVars, subVars>>

NextDcPage ==
    \/ ReadReportVoltages
    \/ ComputeInverterLimits
    \/ ReadStringsAnalysis
    \/ CountParallelStrings
    \/ RenderDcPage

SpecDcPage == InitDcPage /\ [][NextDcPage]_vars

---------------------------------------------------------------------------
(* PdfReport, lines 159-171 and 197-694: pagination and the pages rendered *)

ITEMS_PER_PAGE == 14

MaxRows == 29       \* most printable rows explored

\* printableRows, each row standing for its position in the list
PrintableRowLists == {[k \in 1..n |-> k] : n \in 0..MaxRows}

ExportOptions == [includeDatasheets : BOOLEAN, includeGuides : BOOLEAN,
                  includeRegulations : BOOLEAN]

Min2(a, b) == IF a <= b THEN a ELSE b

RECURSIVE ChunksFrom(_, _)
\* for (let i = 0; i < rows.length; i += ITEMS_PER_PAGE)
\*     chunks.push(rows.slice(i, i + ITEMS_PER_PAGE))
ChunksFrom(rows, i) ==
    IF i < Len(rows)
    THEN << SubSeq(rows, i + 1, Min2(i + ITEMS_PER_PAGE, Len(rows))) >>
         \o ChunksFrom(rows, i + ITEMS_PER_PAGE)
    ELSE << >>

MaterialChunksOf_NoEmptyPage(rows) == ChunksFrom(rows, 0)

\* return chunks.length > 0 ? chunks : [[]]
MaterialChunksOf(rows) ==
    LET chunks == ChunksFrom(rows, 0)
    IN  IF Len(chunks) > 0 THEN chunks ELSE << << >> >>

\* (cond ? a : b)
Tern(cond, a, b) == IF cond THEN a ELSE b

\* 1 + (project.fields.length * 2) + 2 + (includeDatasheets ? 2 : 1)
\*   + materialPages + (showDoc ? 2 : 0) + (showRegul ? 1 : 0)
TotalPagesOf(nFields, opts, nMaterial) ==
    1 + (nFields * 2) + 2 + Tern(opts.includeDatasheets, 2, 1) + nMaterial
      + Tern(opts.includeGuides, 2, 0) + Tern(opts.includeRegulations, 1, 0)

\* a rendered page: what it is and the page number of its footer, if it has one
Page(kind, footer) == [kind |-> kind, footer |-> footer]

\* line 201: the cover has no footer
CoverPages == << Page("cover", Null) >>

RECURSIVE FieldPagesFrom(_, _)
\* lines 263-294, index counting from 0
FieldPagesFrom(index, nFields) ==
    IF index < nFields
    THEN << Page("field", Some(1 + (index * 2) + 1)),
            Page("field_detail", Some(1 + (index * 2) + 2)) >>
         \o FieldPagesFrom(index + 1, nFields)
    ELSE << >>

\* lines 297-399
DcPages(nFields, opts) ==
    IF opts.includeDatasheets
    THEN << Page("dc_audit", Some(1 + (nFields * 2) + 1)) >>
    ELSE << >>

\* lines 402-545
AcAndSchematicPages(nFields, opts) ==
    << Page("ac", Some(1 + (nFields * 2) + Tern(opts.includeDatasheets, 2, 1))),
       Page("schematic",
            Some(1 + (nFields * 2) + Tern(opts.includeDatasheets, 2, 1) + 1)) >>

RECURSIVE MaterialPagesFrom(_, _, _, _)
\* lines 548-607, pageIndex counting from 0
MaterialPagesFrom(pageIndex, nMaterial, total, opts) ==
    IF pageIndex < nMaterial
    THEN << Page("material",
                 Some(total - nMaterial + pageIndex
                      - Tern(opts.includeGuides, 2, 0)
                      - Tern(opts.includeRegulations, 1, 0))) >>
         \o MaterialPagesFrom(pageIndex + 1, nMaterial, total, opts)
    ELSE << >>

\* lines 610-672
DocPages(total, opts) ==
    IF opts.includeGuides
    THEN << Page("doc_structure",
                 Some(total - Tern(opts.includeGuides, 1, 0)
                      - Tern(opts.includeRegulations, 1, 0))),
            Page("doc_energy", Some(total - Tern(opts.includeRegulations, 1, 0))) >>
    ELSE << >>

\* lines 674-692
RegulationPages(total, opts) ==
    IF opts.includeRegulations THEN << Page("regulation", Some(total)) >> ELSE << >>

InitPages ==
    /\ pc = "pages_entry"
    /\ fieldsPowerW \in SeqsUpTo(FieldPowersW, MaxFields)
    /\ grouped = Idle
    /\ printableRows \in PrintableRowLists
    /\ exportOptions \in ExportOptions
    /\ materialChunks = Null /\ materialPages = Null
    /\ totalPages = Null /\ pages = Null
    /\ vocColdString = Idle /\ vmpHotString = Idle
    /\ vocCellClass = Idle /\ disconnectVerdict = Idle
    /\ phase = Idle /\ configuredStrings = Idle /\ agcpValue = Idle
    /\ report = Idle /\ voltageDrop = Idle
    /\ microBranchesReport = Idle
    /\ roofType = Idle /\ windZone = Idle
    /\ baseMargin = Idle /\ sideMargin = Idle /\ topBottomMargin = Idle
    /\ margins = Idle /\ prevCall = Idle
    /\ isThreePhase = Idle /\ invVmaxLimit = Idle /\ invVmpMin = Idle
    /\ stringsAnalysis = Idle /\ mpptCount = Idle
    /\ mpptParallelCounts = Idle /\ maxParallelStringsOnAnyMppt = Idle
    /\ gpvRequired = Idle
    /\ hasMicroBranches = Idle /\ worstBranchDrop = Idle
    /\ totalProductionDrop = Idle
    /\ subscriptionStatus = Idle /\ subscriptionNote = Idle
    /\ IdleVoc /\ IdleAcPage

\* lines 55-56: firstField.panels of a project without fields is a TypeError
ReadFirstField ==
    /\ pc = "pages_entry"
    /\ pc' = IF Len(fieldsPowerW) = 0 THEN "threw" ELSE "first_field_read"
    /\ UNCHANGED <<marginVars, propVars, dcVars, dropVars, subVars, moreVars>>

\* lines 159-167
ComputeMaterialChunks ==
    /\ pc \in {"first_field_read", "rows_done"}
    /\ materialChunks' = Some(MaterialChunksOf(printableRows))
    /\ materialPages' = Some(Len(Get(materialChunks')))
    /\ pc' = "chunks_done"
    /\ UNCHANGED <<grouped, printableRows, totalPages, pages,
                   vocVars, dcPageVars, acPageVars,
                   marginVars, propVars, dcVars, dropVars, subVars>>

\* lines 168-171
ComputeTotalPages ==
    /\ pc = "chunks_done"
    /\ totalPages' = Some(TotalPagesOf(Len(fieldsPowerW), exportOptions,
                                       Get(materialPages)))
    /\ pc' = "total_done"
    /\ UNCHANGED <<grouped, printableRows, materialChunks, materialPages, pages,
                   vocVars, dcPageVars, acPageVars,
                   marginVars, propVars, dcVars, dropVars, subVars>>

\* lines 197-694: the pages in the order of the returned tree
RenderPages ==
    /\ pc = "total_done"
    /\ LET n == Len(fieldsPowerW)
           t == Get(totalPages)
       IN  pages' = Some(CoverPages
                         \o FieldPagesFrom(0, n)
                         \o DcPages(n, exportOptions)
                         \o AcAndSchematicPages(n, exportOptions)
                         \o MaterialPagesFrom(0, Get(materialPages), t, exportOptions)
                         \o DocPages(t, exportOptions)
                         \o RegulationPages(t, exportOptions))
    /\ pc' = "pages_done"
    /\ UNCHANGED <<grouped, printableRows, materialChunks, materialPages, totalPages,
                   vocVars, dcPageVars, acPageVars,
                   marginVars, propVars, dcVars, dropVars, subVars>>

NextPages == ReadFirstField \/ ComputeMaterialChunks \/ ComputeTotalPages
             \/ RenderPages

SpecPages == InitPages /\ [][NextPages]_vars

---------------------------------------------------------------------------
(* PdfReport, lines 135-157: the printable rows of the material list       *)
(*                                                                         *)
(* A description is the sequence of its characters.  groupMaterialsByCategory *)
(* is outside src/: the model starts from the groups it returns.  A row    *)
(* keeps its type and, for an item row, its material.                      *)

MaxLead == 13       \* most plain items explored before a chosen item

CoffretAcMixedCase == << "C", "o", "f", "f", "r", "e", "t", " ", "A", "C" >>
CoffretAcInside == << "K", "i", "t", " ", "c", "o", "f", "f", "r", "e", "t", " ",
                      "a", "c", " ", "3", "2", "A" >>
CoffretDc == << "C", "o", "f", "f", "r", "e", "t", " ", "D", "C" >>
RailDescription == << "R", "a", "i", "l" >>

Descriptions == {CoffretAcMixedCase, CoffretAcInside, CoffretDc, RailDescription}

Material(d) == [description |-> d]

\* n plain items
PlainItems(n) == [k \in 1..n |-> Material(RailDescription)]

\* no item or one item of any description
ChosenItems == {<< >>} \cup {<< Material(d) >> : d \in Descriptions}

LongItemLists ==
    {PlainItems(n) \o mid \o PlainItems(m) :
        n \in 0..MaxLead, mid \in ChosenItems, m \in 0..1}

ShortItemLists == {mid \o PlainItems(m) : mid \in ChosenItems, m \in 0..1}

\* g.subSections: absent, empty, or one sub-section
SubSectionLists ==
    {Null, Some(<< >>)} \cup {Some(<< [items |-> l] >>) : l \in ChosenItems}

\* the groups returned by groupMaterialsByCategory(materials)
GroupedMaterials ==
    {<< >>}
    \cup {<< g >> : g \in [items : LongItemLists, subSections : SubSectionLists]}
    \cup {<< g, h >> : g \in [items : LongItemLists, subSections : SubSectionLists],
                       h \in [items : ShortItemLists, subSections : {Null}]}

\* project.inverterConfig.agcpValue for the material list
RowsAgcpValues == {Null, Some(-1), Some(0), Some(30)}

\* c.toLowerCase() for one character
LowerChar(c) ==
    CASE c = "A" -> "a"
      [] c = "C" -> "c"
      [] c = "D" -> "d"
      [] c = "K" -> "k"
      [] c = "R" -> "r"
      [] OTHER -> c

\* s.toLowerCase()
ToLowerCase(s) == [k \in DOMAIN s |-> LowerChar(s[k])]

\* s.includes(sub)
Includes(s, sub) ==
    \E i \in 0..(Len(s) - Len(sub)) : SubSeq(s, i + 1, i + Len(sub)) = sub

CoffretAcNeedle == << "c", "o", "f", "f", "r", "e", "t", " ", "a", "c" >>

NeedsAgcpWarning_CaseSensitive(item, agcp) ==
    /\ Includes(item.description, CoffretAcNeedle)
    /\ (IsNull(agcp) \/ Get(agcp) = 0 \/ Get(agcp) <= 0)

\* item.description.toLowerCase().includes('coffret ac')
\*   && (!project.inverterConfig.agcpValue || project.inverterConfig.agcpValue <= 0)
NeedsAgcpWarning(item, agcp) ==
    /\ Includes(ToLowerCase(item.description), CoffretAcNeedle)
    /\ (IsNull(agcp) \/ Get(agcp) = 0 \/ Get(agcp) <= 0)

Row(type, material) == [type |-> type, material |-> material]

\* addItemWithWarning(item): the rows pushed
addItemWithWarning(item, agcp) ==
    << Row("item", Some(item)) >>
    \o (IF NeedsAgcpWarning(item, agcp) THEN << Row("warning", Null) >> ELSE << >>)

RECURSIVE ItemRows(_, _)
\* items.forEach(item => addItemWithWarning(item))
ItemRows(items, agcp) ==
    IF items = << >> THEN << >>
    ELSE addItemWithWarning(Head(items), agcp) \o ItemRows(Tail(items), agcp)

RECURSIVE SubSectionRows(_, _)
\* g.subSections.forEach(sub => { push subheader; sub.items.forEach(...) })
SubSectionRows(subs, agcp) ==
    IF subs = << >> THEN << >>
    ELSE << Row("subheader", Null) >> \o ItemRows(Head(subs).items, agcp)
         \o SubSectionRows(Tail(subs), agcp)

RECURSIVE GroupRows(_, _)
\* grouped.forEach(g => { push header; items; if (g.subSections) {...} })
GroupRows(groups, agcp) ==
    IF groups = << >> THEN << >>
    ELSE LET g == Head(groups)
         IN  << Row("header", Null) >> \o ItemRows(g.items, agcp)
             \o (IF IsNull(g.subSections) THEN << >>
                 ELSE SubSectionRows(Get(g.subSections), agcp))
             \o GroupRows(Tail(groups), agcp)

InitRows ==
    /\ pc = "rows_entry"
    /\ grouped \in GroupedMaterials
    /\ agcpValue \in RowsAgcpValues
    /\ printableRows = Null
    /\ materialChunks = Null /\ materialPages = Null
    /\ totalPages = Idle /\ pages = Idle
    /\ phase = Idle /\ configuredStrings = Idle
    /\ fieldsPowerW = Idle /\ report = Idle /\ voltageDrop = Idle
    /\ microBranchesReport = Idle
    /\ roofType = Idle /\ windZone = Idle
    /\ baseMargin = Idle /\ sideMargin = Idle /\ topBottomMargin = Idle
    /\ margins = Idle /\ prevCall = Idle
    /\ isThreePhase = Idle /\ invVmaxLimit = Idle /\ invVmpMin = Idle
    /\ stringsAnalysis = Idle /\ mpptCount = Idle
    /\ mpptParallelCounts = Idle /\ maxParallelStringsOnAnyMppt = Idle
    /\ gpvRequired = Idle
    /\ hasMicroBranches = Idle /\ worstBranchDrop = Idle
    /\ totalProductionDrop = Idle
    /\ subscriptionStatus = Idle /\ subscriptionNote = Idle
    /\ IdleVoc /\ IdleDcPage /\ IdleAcPage

\* lines 135-157
BuildPrintableRows ==
    /\ pc = "rows_entry"
    /\ printableRows' = GroupRows(grouped, agcpValue)
    /\ pc' = "rows_done"
    /\ UNCHANGED <<grouped, materialChunks, materialPages, totalPages, pages,
                   vocVars, dcPageVars, acPageVars,
                   marginVars, propVars, dcVars, dropVars, subVars>>

NextRows == BuildPrintableRows \/ ComputeMaterialChunks

SpecRows == InitRows /\ [][NextRows]_vars

---------------------------------------------------------------------------
(* Properties                                                              *)

\* the configured strings as the claims read them: positions of the list
CfgList == IF IsNull(configuredStrings) THEN << >> ELSE Get(configuredStrings)
WithIndex(i) == {k \in DOMAIN CfgList : CfgList[k].mpptIndex = Some(i)}
WithoutIndex == {k \in DOMAIN CfgList : CfgList[k].mpptIndex = Null}
\* strings on MPPT i, a string without index being on MPPT 1
OnMppt(i) == WithIndex(i) \cup (IF i = 1 THEN WithoutIndex ELSE {})

\* C1: once the parallel strings are counted, gpvRequired is true if and only
\* if some MPPT index carries more than 2 of the configured strings.
C1_GpvRequiredIffMoreThanTwo ==
    pc = "dc_done" =>
        (gpvRequired <=> \E i \in 1..MaxMppt : Cardinality(OnMppt(i)) > 2)

\* C1 witness: 3 strings on MPPT 1 and 1 on MPPT 2 require the gPV fuses.
C1_Witness ==
    /\ pc = "dc_done"
    /\ configuredStrings = Some(<< [mpptIndex |-> Some(1)], [mpptIndex |-> Some(1)],
                                   [mpptIndex |-> Some(1)], [mpptIndex |-> Some(2)] >>)
    /\ gpvRequired = TRUE

\* base margin of the wind-zone table: 300 / 300 / 400 / 500 / 600 mm
ZoneTable == <<300, 300, 400, 500, 600>>

\* C2: for wind zones 1..5 and every roof type, the returned top and bottom
\* margins both equal the base margin of the zone, without roof adjustment.
C2_TopBottomAreBaseMargin ==
    (pc = "margins_returned" /\ windZone \in 1..5) =>
        /\ margins.top = ZoneTable[windZone]
        /\ margins.bottom = ZoneTable[windZone]

\* C2 witness: a roof type with a side adjustment, in a zone above the default.
C2_Witness ==
    /\ pc = "margins_returned"
    /\ windZone = 4 /\ roofType = "TUILE_CANAL"
    /\ margins.top = 500 /\ margins.bottom = 500

\* C3: for wind zones 1..5 and every roof type, the returned left and right
\* margins both equal the base margin of the zone plus 50 for TUILE_CANAL,
\* plus 100 for FIBROCIMENT, plus 0 for every other roof type.
C3_SidesAreBasePlusAdjustment ==
    (pc = "margins_returned" /\ windZone \in 1..5) =>
        LET adj == IF roofType = "TUILE_CANAL" THEN 50
                   ELSE IF roofType = "FIBROCIMENT" THEN 100 ELSE 0
        IN  /\ margins.left = ZoneTable[windZone] + adj
            /\ margins.right = ZoneTable[windZone] + adj

\* C3 witness: TUILE_CANAL in zone 3 gets 450 mm on both sides.
C3_Witness ==
    /\ pc = "margins_returned"
    /\ windZone = 3 /\ roofType = "TUILE_CANAL"
    /\ margins.left = 450 /\ margins.right = 450

\* C4: the two reference results: (ZONE_5, FIBROCIMENT) returns 600/600/700/700
\* and (ZONE_1, TUILE_MECANIQUE) returns 300/300/300/300.
C4_ReferenceResults ==
    pc = "margins_returned" =>
        /\ (windZone = 5 /\ roofType = "FIBROCIMENT") =>
               margins = [top |-> 600, bottom |-> 600, left |-> 700, right |-> 700]
        /\ (windZone = 1 /\ roofType = "TUILE_MECANIQUE") =>
               margins = [top |-> 300, bottom |-> 300, left |-> 300, right |-> 300]

\* C4 witness: the call with (ZONE_5, FIBROCIMENT) has returned.
C4_Witness ==
    /\ pc = "margins_returned"
    /\ windZone = 5 /\ roofType = "FIBROCIMENT"
    /\ margins.left = 700

\* the branch list of the micro-branches report, empty when there is none
BranchList ==
    IF IsNull(microBranchesReport) THEN << >>
    ELSE IF IsNull(Get(microBranchesReport).branches) THEN << >>
    ELSE Get(Get(microBranchesReport).branches)
BranchDropValues == {BranchList[k].dropPercent : k \in DOMAIN BranchList}
FeederDrop == IF IsNull(voltageDrop) THEN 0 ELSE Get(voltageDrop)

\* C5: when the micro-branches report has at least one branch, the combined
\* production drop is the largest branch dropPercent plus the main feeder drop
\* (a missing feeder drop counting as 0).
C5_ProductionDropIsMaxPlusFeeder ==
    (pc = "drop_done" /\ BranchList # << >>) =>
        /\ totalProductionDrop - FeederDrop \in BranchDropValues
        /\ \A d \in BranchDropValues : totalProductionDrop - FeederDrop >= d

\* C5 witness: several branches with different drops, the worst one not first,
\* and a non-zero feeder drop.
C5_Witness ==
    /\ pc = "drop_done"
    /\ Len(BranchList) >= 2
    /\ BranchList[1].dropPercent < BranchList[2].dropPercent
    /\ FeederDrop > 0
    /\ totalProductionDrop = BranchList[2].dropPercent + FeederDrop

\* C6: a status whose subscribedKva is null has isOk false and gets the 'not
\* provided' note; the 'à faire évoluer' note appears exactly when subscribedKva
\* is known and isOk is false, the 'compatible' note exactly when subscribedKva
\* is known and isOk is true.
C6_UnknownSubscriptionIsDistinct ==
    pc = "sub_done" =>
        LET known == subscriptionStatus.subscribedKva # Null
        IN  /\ ~known => (~subscriptionStatus.isOk /\ subscriptionNote = "non_renseignee")
            /\ subscriptionNote = "a_faire_evoluer" <=> (known /\ ~subscriptionStatus.isOk)
            /\ subscriptionNote = "compatible" <=> (known /\ subscriptionStatus.isOk)

\* C6 witness: an absent AGCP value, rendered as 'not provided'.
C6_Witness ==
    /\ pc = "sub_done"
    /\ agcpValue = Null
    /\ subscriptionStatus.subscribedKva = Null
    /\ subscriptionStatus.isOk = FALSE
    /\ subscriptionNote = "non_renseignee"

\* C7: isOk is false when subscribedKva is null, and otherwise is true exactly
\* when subscribedKva >= recommendedKva.
C7_IsOkFormula ==
    pc \in {"status_done", "sub_done"} =>
        LET s == subscriptionStatus
        IN  /\ s.subscribedKva = Null => ~s.isOk
            /\ (s.subscribedKva # Null /\ s.recommendedKva # Null) =>
                   (s.isOk <=> Get(s.subscribedKva) >= Get(s.recommendedKva))

\* C7 witness: a subscription exactly at the recommended tier is accepted.
C7_Witness ==
    /\ pc = "status_done"
    /\ subscriptionStatus.subscribedKva # Null
    /\ subscriptionStatus.subscribedKva = subscriptionStatus.recommendedKva
    /\ subscriptionStatus.isOk = TRUE

\* C8: in the parallel-string count, the strings without mpptIndex are counted
\* with those whose mpptIndex is 1 and with no other index.
C8_MissingIndexCountsOnMppt1 ==
    pc = "dc_done" =>
        /\ DOMAIN mpptParallelCounts = {i \in 1..MaxMppt : OnMppt(i) # {}}
        /\ 1 \in DOMAIN mpptParallelCounts =>
               mpptParallelCounts[1] = Cardinality(WithIndex(1)) + Cardinality(WithoutIndex)
        /\ \A i \in DOMAIN mpptParallelCounts \ {1} :
               mpptParallelCounts[i] = Cardinality(WithIndex(i))

\* C8 witness: strings without index beside strings on MPPT 1 and on MPPT 2.
C8_Witness ==
    /\ pc = "dc_done"
    /\ WithoutIndex # {} /\ WithIndex(1) # {} /\ WithIndex(2) # {}
    /\ mpptParallelCounts[1] = Cardinality(WithIndex(1)) + Cardinality(WithoutIndex)
    /\ mpptParallelCounts[2] = Cardinality(WithIndex(2))

DistinctMppts == {i \in 1..MaxMppt : OnMppt(i) # {}}
AnalysisPresent ==
    /\ report # Null
    /\ Get(report).details # Null
    /\ Get(Get(report).details).stringsAnalysis # Null

\* C9 as stated: for any configured strings, mpptCount equals the number of
\* distinct mpptIndex values present among them.
C9_Original ==
    pc \in {"analysis_done", "dc_done"} => mpptCount = Cardinality(DistinctMppts)

\* C9 amended: mpptCount equals the number of distinct mpptIndex values among
\* the configured strings (a missing index counting as 1) when the report
\* carries a stringsAnalysis, and 0 when the report, its details or its
\* stringsAnalysis is absent.
C9_MpptCountWhenAnalysisPresent ==
    pc \in {"analysis_done", "dc_done"} =>
        mpptCount = (IF AnalysisPresent THEN Cardinality(DistinctMppts) ELSE 0)

\* C9 witness: an analysed project whose strings use two distinct MPPTs, one of
\* them through strings with and without index.
C9_Witness ==
    /\ pc = "analysis_done"
    /\ AnalysisPresent
    /\ WithoutIndex # {} /\ WithIndex(1) # {} /\ WithIndex(2) # {}
    /\ WithIndex(3) = {}
    /\ mpptCount = 2

LimitAbsent(f) ==
    \/ report = Null
    \/ Get(report).details = Null
    \/ Get(Get(report).details)[f] = Null

\* C10: reading the inverter limits never fails, and when the report, its
\* details or the limit is absent the limit is the default: 600 V (Mono) or
\* 1000 V (Tri) for vmaxInverter, 80 V for vminMppt.
C10_DefaultInverterLimits ==
    /\ pc # "threw"
    /\ pc \in {"limits_done", "analysis_done", "dc_done"} =>
        /\ LimitAbsent("vmaxInverter") =>
               invVmaxLimit = (IF phase = "Tri" THEN 1000 ELSE 600)
        /\ LimitAbsent("vminMppt") => invVmpMin = 80

\* C10 witness: a three-phase project rendered without report.
C10_Witness ==
    /\ pc = "limits_done"
    /\ report = Null /\ phase = "Tri"
    /\ invVmaxLimit = 1000 /\ invVmpMin = 80

ReferencePanel ==
    [vocStc |-> 456, tempCoeffVoc |-> -27, vmpStc |-> 380, tempCoeffVmp |-> -34,
     iscStc |-> 1420]
ReferenceCase ==
    /\ pc = "voc_done"
    /\ panel = ReferencePanel /\ climate.tempMin = -10 /\ seriesCount = 10

\* C12 as stated: for vocStc = 45.6 V, tempCoeffVoc = -0.27 %/degree,
\* tempMin = -10 and 10 panels the formula yields 489.1 V to one decimal.
C12_Original == ReferenceCase => ToFixed1(Get(vocCold)) = 4891

\* C12 amended: for these inputs the formula yields 499.092 V, 499.1 V to one
\* decimal.
C12_ReferenceVocIs499 ==
    ReferenceCase => (Get(vocCold) = 49909200 /\ ToFixed1(Get(vocCold)) = 4991)

\* C12 witness: the method has been applied to the reference inputs.
C12_Witness == ReferenceCase /\ ToFixed1(Get(vocCold)) = 4991

TwoEvaluations == pc = "voc_done" /\ prevClimate # Null
Colder == Get(prevClimate).tempMin <= climate.tempMin

\* C13 as stated: for a fixed panel and panel count, an evaluation at a
\* tempMin that is lower or equal gives a vocCold that is greater or equal.
C13_Original ==
    (TwoEvaluations /\ Colder) => Get(prevVocCold) >= Get(vocCold)

\* C13 amended: the same, for a panel whose tempCoeffVoc is not positive.
C13_VocColdMonotoneForNegativeCoeff ==
    (TwoEvaluations /\ Colder /\ panel.tempCoeffVoc <= 0) =>
        Get(prevVocCold) >= Get(vocCold)

\* C13 witness: the reference panel evaluated at -20 and then at 0 degrees, the
\* colder evaluation giving strictly more.
C13_Witness ==
    /\ TwoEvaluations
    /\ panel = ReferencePanel
    /\ Get(prevClimate).tempMin = -20 /\ climate.tempMin = 0
    /\ Get(prevVocCold) > Get(vocCold)

DcPageDone == pc = "dc_page_done"
DcPageRendered == DcPageDone /\ exportOptions.includeDatasheets
OverVoltage == Get(vocColdString) > Volts(invVmaxLimit)

AggregatesRead ==
    /\ pc \in {"analysis_done", "dc_done", "dc_page_done"}
    /\ vocColdString # Idle
    /\ report # Null

\* C14: when a report is given, the aggregate vocCold and the aggregate vmpHot
\* read from it each equal the maximum of the values of the StringResults of
\* its stringsAnalysis.
C14_AggregatesAreMaxAcrossStrings ==
    AggregatesRead =>
        /\ Get(vocColdString) =
               SetMax({stringsAnalysis[k].vocCold : k \in DOMAIN stringsAnalysis})
        /\ Get(vmpHotString) =
               SetMax({stringsAnalysis[k].vmpHot : k \in DOMAIN stringsAnalysis})

\* C14 witness: two MPPTs whose voltages differ, the aggregates being those of
\* the second.
C14_Witness ==
    /\ AggregatesRead
    /\ Len(stringsAnalysis) = 2
    /\ stringsAnalysis[1].vocCold < stringsAnalysis[2].vocCold
    /\ Get(vocColdString) = stringsAnalysis[2].vocCold
    /\ stringsAnalysis[1].vmpHot < stringsAnalysis[2].vmpHot
    /\ Get(vmpHotString) = stringsAnalysis[2].vmpHot

\* ratings of the DC disconnects an installation may be fitted with
DcDisconnects == { [ratedCurrent |-> 16, ratedVoltage |-> 600],
                   [ratedCurrent |-> 32, ratedVoltage |-> 1000] }

\* In >= Isc_calc et Un >= Uoc_max
DisconnectSuffices(d) ==
    /\ Amperes(d.ratedCurrent) >= OrNum(ReportDetail(report, "iscCalculation"), 0)
    /\ Volts(d.ratedVoltage) >= Get(vocColdString)

\* C15: the verdict of the DC disconnect row is "VALIDE" only when the rating
\* of the disconnect is at least iscCalculation and at least vocCold,
\* whichever disconnect is fitted.
C15_VerdictFollowsComparison ==
    DcPageRendered =>
        \A d \in DcDisconnects :
            disconnectVerdict = Some("VALIDE") => DisconnectSuffices(d)

AcPageDone == pc = "ac_page_done"

\* C16: a voltage drop is flagged (red) exactly when it is strictly greater
\* than 1 % (2 half-percent units), for the main feeder, for each micro branch
\* and for the combined production drop; a render stops in an error only when
\* the feeder drop is missing, never because a value is flagged.
C16_DropFlaggedOnlyAboveTarget ==
    /\ pc = "threw" => IsNull(voltageDrop)
    /\ (pc = "drop_done" /\ ~IsNull(voltageDrop)) => ENABLED RenderAcPage
    /\ AcPageDone =>
          /\ feederDropClass =
                 Some(IF Get(voltageDrop) > 2 THEN "text-red-600" ELSE "text-green-600")
          /\ BranchList # << >> =>
                /\ \A k \in DOMAIN BranchList :
                      Get(branchDropClasses)[k] =
                          (IF BranchList[k].dropPercent > 2
                           THEN "text-red-600" ELSE "text-green-700")
                /\ productionDropClass =
                       Some(IF totalProductionDrop > 2
                            THEN "text-red-700" ELSE "text-green-700")

\* C16 witness: the page is rendered with a feeder at exactly 1 % unflagged, a
\* branch at exactly 1 % unflagged, a branch above 1 % flagged and the combined
\* drop flagged.
C16_Witness ==
    /\ AcPageDone
    /\ Get(voltageDrop) = 2 /\ feederDropClass = Some("text-green-600")
    /\ Len(BranchList) = 2
    /\ BranchList[1].dropPercent = 2 /\ Get(branchDropClasses)[1] = "text-green-700"
    /\ BranchList[2].dropPercent = 3 /\ Get(branchDropClasses)[2] = "text-red-600"
    /\ productionDropClass = Some("text-red-700")

MarginsReturned == pc = "margins_returned"
TwoCalls == MarginsReturned /\ prevCall # Null
EnumZones == 1..5

\* C17: for the same roof type and two wind zones z1 <= z2 of the enumeration,
\* each of top, bottom, left and right returned for z1 is at most the one
\* returned for z2.
C17_MarginsMonotoneInWindZone ==
    (/\ TwoCalls
     /\ Get(prevCall).roofType = roofType
     /\ Get(prevCall).windZone \in EnumZones /\ windZone \in EnumZones
     /\ Get(prevCall).windZone <= windZone) =>
        /\ Get(prevCall).margins.top <= margins.top
        /\ Get(prevCall).margins.bottom <= margins.bottom
        /\ Get(prevCall).margins.left <= margins.left
        /\ Get(prevCall).margins.right <= margins.right

\* C17 witness: a fibre-cement roof evaluated in zone 3 and then in zone 4, the
\* margins growing from 400 / 500 to 500 / 600.
C17_Witness ==
    /\ TwoCalls
    /\ roofType = "FIBROCIMENT" /\ Get(prevCall).roofType = "FIBROCIMENT"
    /\ Get(prevCall).windZone = 3 /\ windZone = 4
    /\ Get(prevCall).margins.top = 400 /\ margins.top = 500
    /\ Get(prevCall).margins.left = 500 /\ margins.left = 600

\* C18: getRecommendedMargins is total: whatever the roof type and the wind
\* zone, values outside the listed cases included, every call runs on to its
\* return, and the four margins returned are strictly positive.
C18_MarginsTotalAndPositive ==
    /\ ~MarginsReturned => ENABLED (SwitchWindZone \/ SwitchRoofType \/ ReturnMargins)
    /\ MarginsReturned =>
          /\ margins.top > 0 /\ margins.bottom > 0
          /\ margins.left > 0 /\ margins.right > 0

\* C18 witness: a wind zone outside the enumeration with a roof type that no
\* case lists returns 300 on the four sides.
C18_Witness ==
    /\ MarginsReturned
    /\ windZone = 0 /\ roofType = "AUTRE"
    /\ margins = [top |-> 300, bottom |-> 300, left |-> 300, right |-> 300]

\* C19: determinism (two evaluations with identical inputs give identical
\* outputs) compares an operator of the model with itself and is not stated.

PagesDone == pc = "pages_done"

\* C20: the total page count shown in the footers equals the number of pages
\* the report renders, for every field count, material page count and
\* combination of export options.
C20_TotalPagesIsPagesRendered == PagesDone => Get(totalPages) = Len(Get(pages))

DropComputed == pc \in {"drop_done", "ac_page_done"}

\* C25: branch drops being non-negative, the combined production drop is never
\* less than the main feeder drop; without a micro-branches report, or with an
\* empty branch list, it is the main feeder drop exactly, 0 when the main
\* feeder drop is missing.
C25_ProductionDropAtLeastFeeder ==
    DropComputed =>
        /\ totalProductionDrop >= FeederDrop
        /\ BranchList = << >> =>
              totalProductionDrop =
                  (IF IsNull(voltageDrop) THEN 0 ELSE Get(voltageDrop))

\* C25 witness: a report whose branch list is empty leaves the feeder drop of
\* 1.5 % as the production drop.
C25_Witness ==
    /\ DropComputed
    /\ ~IsNull(microBranchesReport)
    /\ ~IsNull(Get(microBranchesReport).branches)
    /\ BranchList = << >>
    /\ voltageDrop = Some(3) /\ totalProductionDrop = 3

\* the footer page numbers of the pages after the cover, in render order
FooterNumbers ==
    LET ps == Get(pages) IN [k \in 1..(Len(ps) - 1) |-> Get(ps[k + 1].footer)]

\* C21: footer page numbers are consecutive in render order: the first page
\* after the cover is numbered 2, every later page is numbered one more than
\* the page rendered before it, and the last page is numbered totalPages.
C21_FootersConsecutive ==
    PagesDone =>
        /\ FooterNumbers[1] = 2
        /\ \A k \in 2..Len(FooterNumbers) : FooterNumbers[k] = FooterNumbers[k - 1] + 1
        /\ FooterNumbers[Len(FooterNumbers)] = Get(totalPages)

ChunksComputed == pc \in {"chunks_done", "total_done", "pages_done"}

RECURSIVE Concat(_)
\* the chunks joined in order
Concat(chunks) ==
    IF chunks = << >> THEN << >> ELSE Head(chunks) \o Concat(Tail(chunks))

\* C22: materialChunks is an order-preserving partition of printableRows: the
\* chunks joined in order are printableRows, every chunk has at most 14 rows,
\* every chunk but the last has exactly 14, and there is always at least one
\* chunk (a single empty one when there are no rows), so materialPages >= 1.
C22_ChunksPartitionRows ==
    ChunksComputed =>
        LET chunks == Get(materialChunks)
        IN  /\ Concat(chunks) = printableRows
            /\ \A k \in DOMAIN chunks : Len(chunks[k]) <= 14
            /\ \A k \in 1..(Len(chunks) - 1) : Len(chunks[k]) = 14
            /\ Len(chunks) >= 1
            /\ printableRows = << >> => chunks = << << >> >>
            /\ Get(materialPages) = Len(chunks) /\ Get(materialPages) >= 1

\* C22 witness: 29 rows are cut into two full pages and a last page of one row.
C22_Witness ==
    /\ ChunksComputed
    /\ Len(printableRows) = 29
    /\ Len(Get(materialChunks)) = 3
    /\ Len(Get(materialChunks)[1]) = 14 /\ Len(Get(materialChunks)[2]) = 14
    /\ Get(materialChunks)[3] = << printableRows[29] >>

RowsBuilt == pc = "rows_done"

\* the descriptions that contain "coffret ac" whatever the case
CoffretAcDescriptions == {CoffretAcMixedCase, CoffretAcInside}

AgcpMissingOrNotPositive == IsNull(agcpValue) \/ Get(agcpValue) <= 0

\* row k is the item row of a "coffret AC" material
IsCoffretAcItem(k) ==
    /\ printableRows[k].type = "item"
    /\ Get(printableRows[k].material).description \in CoffretAcDescriptions

\* C23: in printableRows a warning row comes immediately after an item row
\* exactly when that item's description contains "coffret ac" in any case and
\* agcpValue is missing or <= 0; there is no warning row anywhere else, and
\* none at all when agcpValue > 0.
C23_WarningRowsFollowCoffretAc ==
    RowsBuilt =>
        /\ \A k \in DOMAIN printableRows :
              (IsCoffretAcItem(k) /\ AgcpMissingOrNotPositive) <=>
                  (/\ printableRows[k].type = "item"
                   /\ k < Len(printableRows)
                   /\ printableRows[k + 1].type = "warning")
        /\ \A k \in DOMAIN printableRows :
              printableRows[k].type = "warning" =>
                  (k > 1 /\ printableRows[k - 1].type = "item")
        /\ ~AgcpMissingOrNotPositive =>
              \A k \in DOMAIN printableRows : printableRows[k].type # "warning"

\* C23 witness: without an AGCP value a "Coffret AC" item is followed by a
\* warning row while a "Coffret DC" item of the same list is not.
C23_Witness ==
    /\ RowsBuilt
    /\ IsNull(agcpValue)
    /\ \E k \in 1..(Len(printableRows) - 1) :
          /\ printableRows[k] = Row("item", Some(Material(CoffretAcMixedCase)))
          /\ printableRows[k + 1].type = "warning"
    /\ \E j \in 1..(Len(printableRows) - 1) :
          /\ printableRows[j] = Row("item", Some(Material(CoffretDc)))
          /\ printableRows[j + 1].type # "warning"

RowsPaginated == pc = "chunks_done"

\* C24: after pagination every warning row is on the material page of the
\* item row it belongs to: no chunk of materialChunks starts with a warning
\* row.
C24_NoChunkStartsWithWarning ==
    RowsPaginated =>
        \A c \in DOMAIN Get(materialChunks) :
            Get(materialChunks)[c] # << >> =>
                Get(materialChunks)[c][1].type # "warning"

===========================================================================
